---- MODULE Spec2Model ----
(***************************************************************************)
(* The "migrate" management command of django/core/management/commands/    *)
(* migrate.py: Command.handle (target resolution, legacy synchronization,  *)
(* plan execution, lifecycle signals) and Command.sync_apps.               *)
(*                                                                         *)
(* Strings whose characters matter (unit names, name prefixes) are         *)
(* sequences of one-character strings; app labels and table names are      *)
(* plain strings.                                                          *)
(*                                                                         *)
(* One invocation is a run of handle from "start" to "done", "failed" or   *)
(* "listed"; its steps are cut at the calls into the loader, the executor, *)
(* the schema editor and the cursor, each of which may raise where the     *)
(* code lets the exception through.  The history graph, the object model,  *)
(* the backend and the command line are chosen in Init.  The loader, the   *)
(* executor, the router, the schema editor and transaction.atomic live in  *)
(* other modules of the repository and are modelled from their contracts.  *)
(*                                                                         *)
(* Not in the state: console output and verbosity, the rows of the tables  *)
(* (the test_flush hook of lines 178-186 and the loaddata call of lines    *)
(* 334-340), and the fake flag, which handle only hands to the executor.   *)
(***************************************************************************)
EXTENDS Integers, Sequences, FiniteSets, TLC

\* Number of times the command is invoked in a row on the same database.
MaxInvocations == 2

----------------------------------------------------------------------------
\* Names

\* Python's None in a target (app_label, None).
NoneName == <<"<None>">>

\* The sentinel migration name of line 110.
Zero == <<"z", "e", "r", "o">>

U0001_i == <<"0", "0", "0", "1", "_", "i">>
U0002_a == <<"0", "0", "0", "2", "_", "a">>
U0002_b == <<"0", "0", "0", "2", "_", "b">>

\* str.startswith
StartsWith(s, p) ==
    /\ Len(p) <= Len(s)
    /\ SubSeq(s, 1, Len(p)) = p

\* Truthiness of a Python str or list ('' and [] are false).
Truthy(s) == Len(s) > 0

----------------------------------------------------------------------------
\* The history graph (MigrationLoader / MigrationGraph)

\* Every unit that may exist on disk, in sorted order.
UnitOrder == << <<"blog", U0001_i>>, <<"blog", U0002_a>>, <<"blog", U0002_b>>,
                <<"shop", U0001_i>> >>

AllUnits == { UnitOrder[i] : i \in 1..Len(UnitOrder) }

\* The single predecessor each unit lists (NoneName: a root).
Parent(u) ==
    IF u = <<"blog", U0002_a>> \/ u = <<"blog", U0002_b>>
    THEN <<"blog", U0001_i>>
    ELSE <<u[1], NoneName>>

IsRoot(u) == Parent(u)[2] = NoneName

\* A loadable graph holds the predecessor of every unit it holds.
ParentClosed(ns) == \A u \in ns : IsRoot(u) \/ Parent(u) \in ns

\* The units of `ns` in sorted order.
SortedUnits(ns) == SelectSeq(UnitOrder, LAMBDA u : u \in ns)

\* MigrationLoader.detect_conflicts: the apps in which two units claim the
\* same predecessor.
detect_conflicts(ns) ==
    { u[1] : u \in { x \in ns : \E y \in ns : /\ y # x
                                              /\ y[1] = x[1]
                                              /\ Parent(y) = Parent(x) } }

\* MigrationGraph.leaf_nodes: the units no unit of the same app depends on.
IsLeaf(ns, u) == ~ \E v \in ns : v[1] = u[1] /\ Parent(v) = u

leaf_nodes(ns) == SelectSeq(UnitOrder, LAMBDA u : u \in ns /\ IsLeaf(ns, u))

\* MigrationLoader.get_migration_by_prefix: the units of the app whose name
\* starts with the prefix; more than one is AmbiguityError, none is KeyError.
PrefixMatches(ns, app_label, name_prefix) ==
    { u \in ns : u[1] = app_label /\ StartsWith(u[2], name_prefix) }

\* MigrationGraph.forwards_plan: the unit's ancestors, roots first, then it.
RECURSIVE forwards_plan(_)
forwards_plan(u) ==
    IF IsRoot(u) THEN <<u>> ELSE Append(forwards_plan(Parent(u)), u)

\* The concatenation of a sequence of sequences (itertools.chain).
RECURSIVE Concat(_)
Concat(ss) == IF ss = <<>> THEN <<>> ELSE Head(ss) \o Concat(Tail(ss))

\* MigrationGraph.backwards_plan: everything that depends on the unit,
\* dependents first, then the unit itself.
RECURSIVE backwards_plan(_, _)
backwards_plan(ns, u) ==
    LET kids == SelectSeq(UnitOrder, LAMBDA v : v \in ns /\ Parent(v) = u)
    IN  Append(Concat([i \in 1..Len(kids) |-> backwards_plan(ns, kids[i])]), u)

\* The steps of `order` to take, given what is applied: unapply the applied
\* ones (backwards), or apply the unapplied ones (forwards).
PlanSteps(order, app, backwards) ==
    LET pick == SelectSeq(order, LAMBDA m : (m \in app) = backwards)
    IN  [i \in 1..Len(pick) |-> [unit |-> pick[i], backwards |-> backwards]]

AppliedAfter(app, steps) ==
    (app \ { steps[i].unit : i \in { j \in 1..Len(steps) : steps[j].backwards } })
        \cup { steps[i].unit : i \in { j \in 1..Len(steps) : ~steps[j].backwards } }

\* The plan of one target of MigrationExecutor.migration_plan.
TargetPlan(ns, app, target) ==
    IF target[2] = NoneName
    THEN LET roots == SelectSeq(UnitOrder,
                          LAMBDA r : r \in ns /\ IsRoot(r) /\ r[1] = target[1])
             order == Concat([i \in 1..Len(roots) |->
                                 backwards_plan(ns, roots[i])])
         IN  PlanSteps(order, app, TRUE)
    ELSE IF target \in app
    THEN LET full == backwards_plan(ns, target)
             bp   == SubSeq(full, 1, Len(full) - 1)
         IN  IF \E i \in 1..Len(bp) : bp[i][1] = target[1]
             THEN PlanSteps(bp, app, TRUE)
             ELSE <<>>
    ELSE PlanSteps(forwards_plan(target), app, FALSE)

\* MigrationExecutor.migration_plan: the plans of the targets in turn, each
\* computed against what the earlier ones leave applied.
RECURSIVE migration_plan(_, _, _)
migration_plan(ns, app, tgts) ==
    IF tgts = <<>> THEN <<>>
    ELSE LET first == TargetPlan(ns, app, Head(tgts))
         IN  first \o migration_plan(ns, AppliedAfter(app, first), Tail(tgts))

----------------------------------------------------------------------------
\* The object model (the app registry)

\* _meta of each model class.  auto_created names the model an implicit
\* table was created for ("" when the model is an ordinary one); deferred
\* is what SchemaEditor.create_model leaves in editor.deferred_sql;
\* custom_sql is what custom_sql_for_model returns.
Meta(model) ==
    CASE model = "Item" ->
           [db_table |-> "Item", proxy |-> FALSE, managed |-> TRUE,
            auto_created |-> "", deferred |-> <<>>, custom_sql |-> <<"i1">>]
      [] model = "Author" ->
           [db_table |-> "author", proxy |-> FALSE, managed |-> TRUE,
            auto_created |-> "", deferred |-> <<"fk_author_book">>,
            custom_sql |-> <<"a1", "a2">>]
      [] model = "Book" ->
           [db_table |-> "book", proxy |-> FALSE, managed |-> TRUE,
            auto_created |-> "", deferred |-> <<"fk_book_author">>,
            custom_sql |-> <<>>]
      [] model = "BookProxy" ->
           [db_table |-> "book", proxy |-> TRUE, managed |-> TRUE,
            auto_created |-> "", deferred |-> <<>>, custom_sql |-> <<>>]
      [] model = "Report" ->
           [db_table |-> "report", proxy |-> FALSE, managed |-> FALSE,
            auto_created |-> "", deferred |-> <<>>, custom_sql |-> <<"r1">>]
      [] model = "Book_authors" ->
           [db_table |-> "book_authors", proxy |-> FALSE, managed |-> TRUE,
            auto_created |-> "Book", deferred |-> <<>>, custom_sql |-> <<>>]

\* apps.get_app_configs(), in installation order.
AppConfigs ==
    << [label |-> "blog",   models_module |-> FALSE, models |-> <<>>],
       [label |-> "shop",   models_module |-> TRUE,  models |-> <<"Item">>],
       [label |-> "legacy", models_module |-> TRUE,
        models |-> <<"Author", "Book", "BookProxy", "Report", "Book_authors">>] >>

AppLabels == { AppConfigs[i].label : i \in 1..Len(AppConfigs) }

AllModels == UNION { { c.models[i] : i \in 1..Len(c.models) }
                     : c \in { AppConfigs[j] : j \in 1..Len(AppConfigs) } }

\* router.get_migratable_models: the models of the app, without the
\* implicit (auto-created) ones unless they are asked for.
get_migratable_models(app_config, include_auto_created) ==
    SelectSeq(app_config.models,
              LAMBDA m : include_auto_created \/ Meta(m).auto_created = "")

\* connection.introspection.table_name_converter: the backend folds the
\* case of table names.
table_name_converter(name) ==
    CASE name = "Item" -> "item"
      [] OTHER -> name

----------------------------------------------------------------------------
\* State

VARIABLES
    options,            \* the command line: app_label, migration_name, list
    migrated_apps,      \* executor.loader.migrated_apps
    nodes,              \* the units of executor.loader.graph
    applied,            \* the units recorded as applied
    can_rollback_ddl,   \* connection.features.can_rollback_ddl
    tables,             \* connection.introspection.table_names()
    constraints,        \* deferred statements in effect in the database
    custom_installed,   \* custom SQL statements in effect in the database
    pc,                 \* where the invocation is
    error,              \* the error the invocation failed with ("" for none)
    targets,            \* handle: targets
    run_syncdb,         \* handle: run_syncdb
    target_app_labels_only, \* handle: target_app_labels_only
    plan,               \* handle: plan, and what executor.migrate has left of it
    manifest,           \* sync_apps: manifest, as (app_name, model_list) pairs
    todo,               \* sync_apps: what the running loop has left
    deferred_sql,       \* sync_apps: deferred_sql
    created_models,     \* sync_apps and handle: created_models
    savepoint,          \* what transaction.atomic rolls back to
    warnings,           \* models whose custom SQL failure went to stderr
    pre_signals,        \* payloads of the pre_migrate signals of the invocation
    post_signals,       \* payloads of the post_migrate signals of the invocation
    log,                \* the signals and schema changes of the invocation
    at_start,           \* the database as the invocation found it
    history             \* one record per earlier invocation on this database

env_vars == <<options, migrated_apps, nodes, can_rollback_ddl>>

db_vars == <<applied, tables, constraints, custom_installed>>

handle_vars == <<targets, run_syncdb, target_app_labels_only, plan>>

sync_vars == <<manifest, todo, deferred_sql, savepoint, warnings>>

obs_vars == <<pre_signals, post_signals, log, at_start, history>>

vars == <<env_vars, db_vars, handle_vars, sync_vars, obs_vars,
          pc, error, created_models>>

\* executor.loader.unmigrated_apps: the installed apps without migrations.
unmigrated_apps == AppLabels \ migrated_apps

\* The units a graph over the migrated apps may hold.
Graphs(mig) ==
    { ns \in SUBSET { u \in AllUnits : u[1] \in mig } : ParentClosed(ns) }

\* What may be recorded as applied: a unit only with its predecessor.
AppliedSets(ns) == { a \in SUBSET ns : ParentClosed(a) }

\* The migration names tried on the command line ("" is no name).
RequestNames ==
    { <<>>, Zero, <<"0", "0", "0", "1">>, <<"0", "0", "0">>, U0002_a,
      <<"0", "0", "0", "3">> }

\* The command lines tried: a name is positional, after an app label.
Requests ==
    { [app_label |-> a, migration_name |-> n, list |-> l] :
        a \in {"", "blog", "shop"}, n \in RequestNames, l \in BOOLEAN }

\* Tables that may exist before the first invocation.
InitialTables == SUBSET {"author", "report"}

Init ==
    /\ options \in { r \in Requests : r.app_label = "" => r.migration_name = <<>> }
    /\ migrated_apps \in { m \in SUBSET AppLabels : "blog" \in m }
    /\ nodes \in Graphs(migrated_apps)
    /\ applied \in AppliedSets(nodes)
    /\ can_rollback_ddl \in BOOLEAN
    /\ tables \in InitialTables
    /\ constraints = {}
    /\ custom_installed = {}
    /\ pc = "start"
    /\ error = ""
    /\ targets = <<>>
    /\ run_syncdb = FALSE
    /\ target_app_labels_only = TRUE
    /\ plan = <<>>
    /\ manifest = <<>>
    /\ todo = <<>>
    /\ deferred_sql = <<>>
    /\ created_models = {}
    /\ savepoint = [tables |-> {}, constraints |-> {}]
    /\ warnings = <<>>
    /\ pre_signals = <<>>
    /\ post_signals = <<>>
    /\ log = <<>>
    /\ at_start = [tables |-> tables, constraints |-> constraints,
                   custom_installed |-> custom_installed, applied |-> applied]
    /\ history = <<>>

\* raise CommandError(...)
Fail(err) ==
    /\ pc' = "failed"
    /\ error' = err

----------------------------------------------------------------------------
\* Command.handle, up to the plan

\* Start, looking for conflicts only in the app the command line names.
StartConflictsOfTargetOnly ==
    /\ pc = "start"
    /\ IF options.list
       THEN pc' = "listed" /\ error' = error
       ELSE IF /\ detect_conflicts(nodes) # {}
               /\ options.app_label \in detect_conflicts(nodes) \cup {""}
       THEN Fail("ConflictingHistory")
       ELSE pc' = "resolve" /\ error' = error
    /\ UNCHANGED <<env_vars, db_vars, handle_vars, sync_vars, obs_vars,
                   created_models>>

\* Lines 61-98: the --list shortcut, then conflict detection.
Start ==
    /\ pc = "start"
    /\ IF options.list
       THEN pc' = "listed" /\ error' = error
       ELSE IF detect_conflicts(nodes) # {}
       THEN Fail("ConflictingHistory")
       ELSE pc' = "resolve" /\ error' = error
    /\ UNCHANGED <<env_vars, db_vars, handle_vars, sync_vars, obs_vars,
                   created_models>>

\* ZeroTargets, taking "zero" for the name of a unit.
ZeroTargetsLiteral(app_label) == << <<app_label, Zero>> >>

\* Line 111: the target of the name "zero".
ZeroTargets(app_label) == << <<app_label, NoneName>> >>

\* PrefixOutcome, settling for the first of several matches.
PrefixOutcomeFirstMatch(app_label, migration_name) ==
    LET matches == PrefixMatches(nodes, app_label, migration_name)
    IN  IF Cardinality(matches) = 0
        THEN [error |-> "UnknownUnit"]
        ELSE [error |-> "", targets |-> <<SortedUnits(matches)[1]>>,
              run_syncdb |-> FALSE, target_app_labels_only |-> FALSE]

\* Lines 113-124: the target of any other name, looked up as a prefix.
PrefixOutcome(app_label, migration_name) ==
    LET matches == PrefixMatches(nodes, app_label, migration_name)
    IN  IF Cardinality(matches) > 1
        THEN [error |-> "AmbiguousUnit"]
        ELSE IF Cardinality(matches) = 0
        THEN [error |-> "UnknownUnit"]
        ELSE [error |-> "", targets |-> SortedUnits(matches),
              run_syncdb |-> FALSE, target_app_labels_only |-> FALSE]

\* AppTargets, without the filter on the app label.
AppTargetsUnfiltered(app_label) == leaf_nodes(nodes)

\* Line 133: the leaf units of one app.
AppTargets(app_label) ==
    SelectSeq(leaf_nodes(nodes), LAMBDA key : key[1] = app_label)

\* ResolveOutcome without the check of line 128: an app named alone is not
\* looked up in migrated_apps.
ResolveOutcomeUnchecked ==
    LET app_label      == options.app_label
        migration_name == options.migration_name
    IN  IF app_label # "" /\ Truthy(migration_name)
        THEN IF app_label \notin migrated_apps
             THEN [error |-> "UnknownComponent"]
             ELSE IF migration_name = Zero
             THEN [error |-> "", targets |-> ZeroTargets(app_label),
                   run_syncdb |-> FALSE, target_app_labels_only |-> FALSE]
             ELSE PrefixOutcome(app_label, migration_name)
        ELSE IF app_label # ""
        THEN [error |-> "", targets |-> AppTargets(app_label),
              run_syncdb |-> FALSE, target_app_labels_only |-> TRUE]
        ELSE [error |-> "", targets |-> leaf_nodes(nodes),
              run_syncdb |-> TRUE, target_app_labels_only |-> TRUE]

\* Lines 100-136: what the command line arguments mean.
ResolveOutcome ==
    LET app_label      == options.app_label
        migration_name == options.migration_name
    IN  IF app_label # "" /\ Truthy(migration_name)
        THEN IF app_label \notin migrated_apps
             THEN [error |-> "UnknownComponent"]
             ELSE IF migration_name = Zero
             THEN [error |-> "", targets |-> ZeroTargets(app_label),
                   run_syncdb |-> FALSE, target_app_labels_only |-> FALSE]
             ELSE PrefixOutcome(app_label, migration_name)
        ELSE IF app_label # ""
        THEN IF app_label \notin migrated_apps
             THEN [error |-> "UnknownComponent"]
             ELSE [error |-> "", targets |-> AppTargets(app_label),
                   run_syncdb |-> FALSE, target_app_labels_only |-> TRUE]
        ELSE [error |-> "", targets |-> leaf_nodes(nodes),
              run_syncdb |-> TRUE, target_app_labels_only |-> TRUE]

Resolve ==
    /\ pc = "resolve"
    /\ LET r == ResolveOutcome
       IN  IF r.error # ""
           THEN Fail(r.error) /\ UNCHANGED handle_vars
           ELSE /\ targets' = r.targets
                /\ run_syncdb' = r.run_syncdb
                /\ target_app_labels_only' = r.target_app_labels_only
                /\ pc' = "plan"
                /\ UNCHANGED <<plan, error>>
    /\ UNCHANGED <<env_vars, db_vars, sync_vars, obs_vars, created_models>>

\* Line 138: plan = executor.migration_plan(targets)
ComputePlan ==
    /\ pc = "plan"
    /\ plan' = migration_plan(nodes, applied, targets)
    /\ pc' = "syncdb"
    /\ UNCHANGED <<env_vars, db_vars, targets, run_syncdb,
                   target_app_labels_only, sync_vars, obs_vars, error,
                   created_models>>

----------------------------------------------------------------------------
\* Command.sync_apps

\* Lines 246-251: the models of the apps to synchronize, app by app.
all_models(app_labels) ==
    LET configs == SelectSeq(AppConfigs,
                       LAMBDA c : c.models_module /\ c.label \in app_labels)
    IN  [i \in 1..Len(configs) |->
            <<configs[i].label, get_migratable_models(configs[i], FALSE)>>]

\* model_installed looking at the table of the auto_created parent only.
model_installed_parent_only(model, tbls) ==
    LET opts == Meta(model)
    IN  ~ /\ opts.auto_created # ""
          /\ table_name_converter(Meta(opts.auto_created).db_table) \in tbls

\* model_installed comparing the model's own table name, unconverted.
model_installed_raw(model, tbls) ==
    LET opts == Meta(model)
    IN  ~ \/ opts.db_table \in tbls
          \/ /\ opts.auto_created # ""
             /\ Meta(opts.auto_created).db_table \in tbls

\* Lines 253-258: despite its name, true of a model that is NOT installed.
model_installed(model, tbls) ==
    LET opts == Meta(model)
    IN  ~ \/ table_name_converter(opts.db_table) \in tbls
          \/ /\ opts.auto_created # ""
             /\ table_name_converter(Meta(opts.auto_created).db_table) \in tbls

\* Lines 260-263
BuildManifest(app_labels, tbls) ==
    LET am == all_models(app_labels)
    IN  [i \in 1..Len(am) |->
            <<am[i][1],
              SelectSeq(am[i][2], LAMBDA m : model_installed(m, tbls))>>]

\* itertools.chain(*manifest.values()), and the order of the nested loops
\* of lines 273-274 and 303-304.
Chain(mf) == Concat([i \in 1..Len(mf) |-> mf[i][2]])

SeqToSet(s) == { s[i] : i \in 1..Len(s) }

\* Skipped without the test of managed.
SkippedProxyOnly(model) == Meta(model).proxy

\* Line 275: models the creation loop passes over.
Skipped(model) == Meta(model).proxy \/ ~Meta(model).managed

\* EditorLeftover, without line 286: the list is not emptied.
EditorLeftoverKept(editor_deferred) == editor_deferred

\* Line 286: what is left in editor.deferred_sql when the editor is
\* released (the editor executes whatever is left).
EditorLeftover(editor_deferred) == <<>>

\* The table introspection reports once create_model(model) has run.
CreatedTable(model) == table_name_converter(Meta(model).db_table)

Event(kind, obj) == [kind |-> kind, obj |-> obj]

Events(kind, objs) == [i \in 1..Len(objs) |-> Event(kind, objs[i])]

\* An exception leaves the transaction.atomic block of line 271: what was
\* done inside is undone on a backend that can roll back DDL, and stays
\* otherwise.
RollbackDDL ==
    IF can_rollback_ddl
    THEN /\ tables' = savepoint.tables
         /\ constraints' = savepoint.constraints
    ELSE UNCHANGED <<tables, constraints>>

\* SyncBegin, without the pre_migrate signal of line 266.
SyncBeginSilent ==
    LET mf == BuildManifest(unmigrated_apps, tables)
    IN  /\ manifest' = mf
        /\ created_models' = {}
        /\ savepoint' = [tables |-> tables, constraints |-> constraints]
        /\ deferred_sql' = <<>>
        /\ todo' = Chain(mf)
        /\ pc' = "create"
        /\ UNCHANGED <<pre_signals, log>>

\* Lines 238-272: sync_apps introspects the tables, builds the manifest,
\* sends pre_migrate and enters the atomic block.
SyncBegin ==
    LET mf == BuildManifest(unmigrated_apps, tables)
    IN  /\ manifest' = mf
        /\ created_models' = {}
        /\ pre_signals' = Append(pre_signals, SeqToSet(Chain(mf)))
        /\ log' = Append(log, Event("pre_migrate", ""))
        /\ savepoint' = [tables |-> tables, constraints |-> constraints]
        /\ deferred_sql' = <<>>
        /\ todo' = Chain(mf)
        /\ pc' = "create"

\* EmitPreDirect, without the signal.
EmitPreDirectSilent ==
    /\ created_models' = {}
    /\ pc' = "migrate"
    /\ UNCHANGED <<pre_signals, log, manifest, savepoint, deferred_sql, todo>>

\* Lines 173-174: without a syncdb phase, pre_migrate is sent from handle.
EmitPreDirect ==
    /\ created_models' = {}
    /\ pre_signals' = Append(pre_signals, {})
    /\ log' = Append(log, Event("pre_migrate", ""))
    /\ pc' = "migrate"
    /\ UNCHANGED <<manifest, savepoint, deferred_sql, todo>>

\* SyncOrEmit without the test of run_syncdb.
SyncOrEmitAnyRequest ==
    /\ pc = "syncdb"
    /\ IF unmigrated_apps # {}
       THEN SyncBegin
       ELSE EmitPreDirect
    /\ UNCHANGED <<env_vars, db_vars, handle_vars, warnings, post_signals,
                   at_start, history, error>>

\* Lines 168-174
SyncOrEmit ==
    /\ pc = "syncdb"
    /\ IF run_syncdb /\ unmigrated_apps # {}
       THEN SyncBegin
       ELSE EmitPreDirect
    /\ UNCHANGED <<env_vars, db_vars, handle_vars, warnings, post_signals,
                   at_start, history, error>>

\* Lines 274-276: a proxy or unmanaged model is passed over.
CreateSkip ==
    /\ pc = "create"
    /\ todo # <<>>
    /\ Skipped(Head(todo))
    /\ todo' = Tail(todo)
    /\ UNCHANGED <<env_vars, db_vars, handle_vars, manifest, deferred_sql,
                   savepoint, warnings, obs_vars, pc, error, created_models>>

\* CreateModel putting the editor's statements in front of deferred_sql.
CreateModelEnqueueInFront ==
    /\ pc = "create"
    /\ todo # <<>>
    /\ ~Skipped(Head(todo))
    /\ LET model    == Head(todo)
           editor   == Meta(model).deferred
           leftover == EditorLeftover(editor)
       IN  /\ tables' = tables \cup {CreatedTable(model)}
           /\ deferred_sql' = editor \o deferred_sql
           /\ constraints' = constraints \cup SeqToSet(leftover)
           /\ log' = (log \o <<Event("create_table", model)>>)
                         \o Events("editor_exit_sql", leftover)
           /\ created_models' = created_models \cup {model}
    /\ todo' = Tail(todo)
    /\ UNCHANGED <<env_vars, applied, custom_installed, handle_vars, manifest,
                   savepoint, warnings, pre_signals, post_signals, at_start,
                   history, pc, error>>

\* Lines 281-287: the table is created inside a schema editor, whose
\* deferred statements move to deferred_sql.
CreateModel ==
    /\ pc = "create"
    /\ todo # <<>>
    /\ ~Skipped(Head(todo))
    /\ LET model    == Head(todo)
           editor   == Meta(model).deferred
           leftover == EditorLeftover(editor)
       IN  /\ tables' = tables \cup {CreatedTable(model)}
           /\ deferred_sql' = deferred_sql \o editor
           /\ constraints' = constraints \cup SeqToSet(leftover)
           /\ log' = (log \o <<Event("create_table", model)>>)
                         \o Events("editor_exit_sql", leftover)
           /\ created_models' = created_models \cup {model}
    /\ todo' = Tail(todo)
    /\ UNCHANGED <<env_vars, applied, custom_installed, handle_vars, manifest,
                   savepoint, warnings, pre_signals, post_signals, at_start,
                   history, pc, error>>

\* CreateModelFails, without the atomic block of line 271.
CreateModelFailsNoAtomic ==
    /\ pc = "create"
    /\ todo # <<>>
    /\ ~Skipped(Head(todo))
    /\ Fail("SchemaCreationFailure")
    /\ UNCHANGED <<env_vars, db_vars, handle_vars, sync_vars, obs_vars,
                   created_models>>

\* Line 284 raises: the exception leaves the atomic block and sync_apps.
CreateModelFails ==
    /\ pc = "create"
    /\ todo # <<>>
    /\ ~Skipped(Head(todo))
    /\ RollbackDDL
    /\ Fail("SchemaCreationFailure")
    /\ UNCHANGED <<env_vars, applied, custom_installed, handle_vars,
                   sync_vars, obs_vars, created_models>>

\* Lines 289-291: the creation loop is over, the deferred SQL is next.
CreateDone ==
    /\ pc = "create"
    /\ todo = <<>>
    /\ todo' = deferred_sql
    /\ pc' = "deferred"
    /\ UNCHANGED <<env_vars, db_vars, handle_vars, manifest, deferred_sql,
                   savepoint, warnings, obs_vars, error, created_models>>

\* Lines 291-292: one deferred statement is executed.
RunDeferred ==
    /\ pc = "deferred"
    /\ todo # <<>>
    /\ constraints' = constraints \cup {Head(todo)}
    /\ log' = Append(log, Event("deferred_sql", Head(todo)))
    /\ todo' = Tail(todo)
    /\ UNCHANGED <<env_vars, applied, tables, custom_installed, handle_vars,
                   manifest, deferred_sql, savepoint, warnings, pre_signals,
                   post_signals, at_start, history, pc, error, created_models>>

\* Line 292 raises.
RunDeferredFails ==
    /\ pc = "deferred"
    /\ todo # <<>>
    /\ RollbackDDL
    /\ Fail("SchemaCreationFailure")
    /\ UNCHANGED <<env_vars, applied, custom_installed, handle_vars,
                   sync_vars, obs_vars, created_models>>

\* Lines 293-304: the atomic block commits; the custom SQL loop starts.
DeferredDone ==
    /\ pc = "deferred"
    /\ todo = <<>>
    /\ todo' = Chain(manifest)
    /\ pc' = "custom"
    /\ UNCHANGED <<env_vars, db_vars, handle_vars, manifest, deferred_sql,
                   savepoint, warnings, obs_vars, error, created_models>>

\* InstallCustomSQL, without the try/except of lines 313-323: a failing
\* statement ends the invocation.
InstallCustomSQLFatal ==
    /\ pc = "custom"
    /\ todo # <<>>
    /\ LET model      == Head(todo)
           custom_sql == Meta(model).custom_sql
       IN  IF model \in created_models /\ Truthy(custom_sql)
           THEN \E k \in 0..Len(custom_sql) :
                  IF k = 0
                  THEN /\ custom_installed' =
                              custom_installed \cup SeqToSet(custom_sql)
                       /\ log' = log \o Events("custom_sql", custom_sql)
                       /\ todo' = Tail(todo)
                       /\ UNCHANGED <<pc, error>>
                  ELSE /\ custom_installed' = custom_installed
                       /\ log' = (log \o Events("custom_sql",
                                                 SubSeq(custom_sql, 1, k - 1)))
                                     \o <<Event("custom_sql_failed",
                                                custom_sql[k])>>
                       /\ todo' = todo
                       /\ Fail("AuxiliarySQLFailure")
           ELSE /\ todo' = Tail(todo)
                /\ UNCHANGED <<custom_installed, log, pc, error>>
    /\ UNCHANGED <<env_vars, applied, tables, constraints, handle_vars,
                   manifest, deferred_sql, savepoint, warnings, pre_signals,
                   post_signals, at_start, history, created_models>>

\* InstallCustomSQL without the atomic block of line 310: the statements
\* run before the failing one stay.
InstallCustomSQLNoAtomic ==
    /\ pc = "custom"
    /\ todo # <<>>
    /\ LET model      == Head(todo)
           custom_sql == Meta(model).custom_sql
       IN  IF model \in created_models /\ Truthy(custom_sql)
           THEN \E k \in 0..Len(custom_sql) :
                  IF k = 0
                  THEN /\ custom_installed' =
                              custom_installed \cup SeqToSet(custom_sql)
                       /\ log' = log \o Events("custom_sql", custom_sql)
                       /\ warnings' = warnings
                  ELSE /\ custom_installed' = custom_installed \cup
                              SeqToSet(SubSeq(custom_sql, 1, k - 1))
                       /\ log' = (log \o Events("custom_sql",
                                                 SubSeq(custom_sql, 1, k - 1)))
                                     \o <<Event("custom_sql_failed",
                                                custom_sql[k])>>
                       /\ warnings' = Append(warnings, model)
           ELSE UNCHANGED <<custom_installed, log, warnings>>
    /\ todo' = Tail(todo)
    /\ UNCHANGED <<env_vars, applied, tables, constraints, handle_vars,
                   manifest, deferred_sql, savepoint, pre_signals,
                   post_signals, at_start, history, pc, error, created_models>>

\* Lines 305-329 for one model: its custom SQL runs in a transaction of
\* its own; statement k failing (k = 0: none does) undoes the ones before
\* it and is reported on stderr.
InstallCustomSQL ==
    /\ pc = "custom"
    /\ todo # <<>>
    /\ LET model      == Head(todo)
           custom_sql == Meta(model).custom_sql
       IN  IF model \in created_models /\ Truthy(custom_sql)
           THEN \E k \in 0..Len(custom_sql) :
                  IF k = 0
                  THEN /\ custom_installed' =
                              custom_installed \cup SeqToSet(custom_sql)
                       /\ log' = log \o Events("custom_sql", custom_sql)
                       /\ warnings' = warnings
                  ELSE /\ custom_installed' = custom_installed
                       /\ log' = (log \o Events("custom_sql",
                                                 SubSeq(custom_sql, 1, k - 1)))
                                     \o <<Event("custom_sql_failed",
                                                custom_sql[k])>>
                       /\ warnings' = Append(warnings, model)
           ELSE UNCHANGED <<custom_installed, log, warnings>>
    /\ todo' = Tail(todo)
    /\ UNCHANGED <<env_vars, applied, tables, constraints, handle_vars,
                   manifest, deferred_sql, savepoint, pre_signals,
                   post_signals, at_start, history, pc, error, created_models>>

\* Lines 330-342: the fixtures are loaded and created_models is returned to
\* handle (line 171).
SyncReturn ==
    /\ pc = "custom"
    /\ todo = <<>>
    /\ pc' = "migrate"
    /\ UNCHANGED <<env_vars, db_vars, handle_vars, sync_vars, obs_vars,
                   error, created_models>>

----------------------------------------------------------------------------
\* Command.handle, from the plan on

\* Migrate, with post_migrate sent before the plan is executed.
MigrateAfterSignal ==
    /\ pc = "migrate"
    /\ post_signals' = Append(post_signals, created_models)
    /\ log' = Append(log, Event("post_migrate", ""))
    /\ IF plan = <<>>
       THEN pc' = "done" /\ todo' = todo
       ELSE pc' = "executing" /\ todo' = plan
    /\ UNCHANGED <<env_vars, db_vars, handle_vars, manifest, deferred_sql,
                   savepoint, warnings, pre_signals, at_start, history, error,
                   created_models>>

\* Lines 188-211: nothing to do for an empty plan, executor.migrate otherwise.
Migrate ==
    /\ pc = "migrate"
    /\ IF plan = <<>>
       THEN pc' = "post" /\ todo' = todo
       ELSE pc' = "executing" /\ todo' = plan
    /\ UNCHANGED <<env_vars, db_vars, handle_vars, manifest, deferred_sql,
                   savepoint, warnings, obs_vars, error, created_models>>

\* What one step of the plan leaves applied.
ApplyStep(app, step) ==
    IF step.backwards THEN app \ {step.unit} ELSE app \cup {step.unit}

\* executor.migrate applies or unapplies the next unit of the plan.
ExecuteUnit ==
    /\ pc = "executing"
    /\ todo # <<>>
    /\ applied' = ApplyStep(applied, Head(todo))
    /\ log' = Append(log, Event(IF Head(todo).backwards
                                THEN "unapply" ELSE "apply", Head(todo).unit))
    /\ todo' = Tail(todo)
    /\ UNCHANGED <<env_vars, tables, constraints, custom_installed,
                   handle_vars, manifest, deferred_sql, savepoint, warnings,
                   pre_signals, post_signals, at_start, history, pc, error,
                   created_models>>

\* ExecuteUnitFails with the units of this plan undone.
ExecuteUnitFailsUndone ==
    /\ pc = "executing"
    /\ todo # <<>>
    /\ Fail("PlanExecutionFailure")
    /\ applied' = at_start.applied
    /\ UNCHANGED <<env_vars, tables, constraints, custom_installed,
                   handle_vars, sync_vars, obs_vars, created_models>>

\* executor.migrate raises on the next unit: handle does not catch it.
ExecuteUnitFails ==
    /\ pc = "executing"
    /\ todo # <<>>
    /\ Fail("PlanExecutionFailure")
    /\ UNCHANGED <<env_vars, db_vars, handle_vars, sync_vars, obs_vars,
                   created_models>>

\* executor.migrate returns.
ExecuteDone ==
    /\ pc = "executing"
    /\ todo = <<>>
    /\ pc' = "post"
    /\ UNCHANGED <<env_vars, db_vars, handle_vars, sync_vars, obs_vars,
                   error, created_models>>

\* Line 215: emit_post_migrate_signal(created_models, ...)
EmitPost ==
    /\ pc = "post"
    /\ post_signals' = Append(post_signals, created_models)
    /\ log' = Append(log, Event("post_migrate", ""))
    /\ pc' = "done"
    /\ UNCHANGED <<env_vars, db_vars, handle_vars, sync_vars, pre_signals,
                   at_start, history, error, created_models>>

----------------------------------------------------------------------------
\* The command is run again

Finished == pc \in {"done", "failed", "listed"}

\* sync_apps was called in this invocation and has returned.
SyncReturned ==
    /\ run_syncdb
    /\ unmigrated_apps # {}
    /\ pc \in {"migrate", "executing", "post", "done"}
          \/ (pc = "failed" /\ error = "PlanExecutionFailure")

\* The same command line is run once more on the database as it is now.
Restart ==
    /\ Finished
    /\ Len(history) + 1 < MaxInvocations
    /\ history' = Append(history, [outcome |-> pc, error |-> error,
                                   synced |-> SyncReturned,
                                   created |-> created_models])
    /\ at_start' = [tables |-> tables, constraints |-> constraints,
                    custom_installed |-> custom_installed,
                    applied |-> applied]
    /\ pc' = "start"
    /\ error' = ""
    /\ targets' = <<>>
    /\ run_syncdb' = FALSE
    /\ target_app_labels_only' = TRUE
    /\ plan' = <<>>
    /\ manifest' = <<>>
    /\ todo' = <<>>
    /\ deferred_sql' = <<>>
    /\ created_models' = {}
    /\ savepoint' = [tables |-> {}, constraints |-> {}]
    /\ warnings' = <<>>
    /\ pre_signals' = <<>>
    /\ post_signals' = <<>>
    /\ log' = <<>>
    /\ UNCHANGED <<env_vars, db_vars>>

Next ==
    \/ Start
    \/ Resolve
    \/ ComputePlan
    \/ SyncOrEmit
    \/ CreateSkip
    \/ CreateModel
    \/ CreateModelFails
    \/ CreateDone
    \/ RunDeferred
    \/ RunDeferredFails
    \/ DeferredDone
    \/ InstallCustomSQL
    \/ SyncReturn
    \/ Migrate
    \/ ExecuteUnit
    \/ ExecuteUnitFails
    \/ ExecuteDone
    \/ EmitPost
    \/ Restart

Spec == Init /\ [][Next]_vars

----------------------------------------------------------------------------
\* Properties

\* The kinds of the events of the log, in order.
Kinds == [i \in 1..Len(log) |-> log[i].kind]

HasEvent(kind) == \E i \in 1..Len(log) : log[i].kind = kind

\* The errors of lines 105-123.
ResolverErrors == {"UnknownComponent", "UnknownUnit", "AmbiguousUnit"}

\* Lines 100-136 have run in this invocation.
Resolved ==
    /\ pc \notin {"start", "resolve", "listed"}
    /\ error # "ConflictingHistory"

\* Lines 100-136 have run and produced targets.
ResolvedOK == Resolved /\ error \notin ResolverErrors

\* The database is as the invocation found it.
DatabaseUntouched ==
    /\ tables = at_start.tables
    /\ constraints = at_start.constraints
    /\ custom_installed = at_start.custom_installed
    /\ applied = at_start.applied

\* No history, nothing to synchronize, no argument.
NoOpCase ==
    /\ options.app_label = ""
    /\ ~options.list
    /\ nodes = {}
    /\ unmigrated_apps = {}

\* C1: an invocation sends at most one pre_migrate and one post_migrate
\* signal, and one that completes has sent exactly one of each, whether
\* or not sync_apps ran and whether or not the plan was empty; with no
\* history, nothing to synchronize and no argument, it cannot fail and both
\* signals carry an empty payload.
C1_OneSignalEach ==
    /\ Len(pre_signals) <= 1
    /\ Len(post_signals) <= 1
    /\ pc = "done" => Len(pre_signals) = 1 /\ Len(post_signals) = 1
    /\ NoOpCase =>
          /\ pc # "failed"
          /\ pc = "done" => /\ pre_signals = <<{}>>
                             /\ post_signals = <<{}>>
                             /\ plan = <<>>
                             /\ Kinds = <<"pre_migrate", "post_migrate">>

\* An invocation that synchronized apps, created tables and applied units
\* has completed.
C1_Witness ==
    /\ pc = "done"
    /\ SyncReturned
    /\ created_models # {}
    /\ HasEvent("apply")

\* C2: when the graph has a conflict, the invocation fails with
\* ConflictingHistory whatever was requested, before targets are resolved,
\* a plan is computed, a signal is sent or the database is changed.
C2_ConflictsAbortFirst ==
    (~options.list /\ detect_conflicts(nodes) # {}) =>
        /\ pc \in {"start", "failed"}
        /\ pc = "failed" => error = "ConflictingHistory"
        /\ targets = <<>>
        /\ plan = <<>>
        /\ ~run_syncdb
        /\ log = <<>>
        /\ pre_signals = <<>>
        /\ post_signals = <<>>
        /\ DatabaseUntouched

\* The request names a unit of an app without conflicts, another app has
\* a conflict, and the invocation has failed.
C2_Witness ==
    /\ pc = "failed"
    /\ error = "ConflictingHistory"
    /\ options.app_label = "shop"
    /\ options.migration_name = <<"0", "0", "0", "1">>
    /\ <<"shop", U0001_i>> \in nodes
    /\ "shop" \notin detect_conflicts(nodes)

\* C3 as stated: every request with an app label and the name "zero"
\* resolves to the single target (app_label, None).
C3_ZeroAlwaysResolves ==
    (Resolved /\ options.app_label # "" /\ options.migration_name = Zero) =>
        targets = << <<options.app_label, NoneName>> >>

\* C3: a request with an app label and the name "zero" resolves to the
\* single target (app_label, None) when the app is a migrated app,
\* whatever units it has, and fails with UnknownComponent otherwise.
C3_ZeroResolvesOnMigratedApp ==
    (Resolved /\ options.app_label # "" /\ options.migration_name = Zero) =>
        IF options.app_label \in migrated_apps
        THEN /\ targets = << <<options.app_label, NoneName>> >>
             /\ error \notin ResolverErrors
        ELSE /\ pc = "failed"
             /\ error = "UnknownComponent"
             /\ targets = <<>>

\* "zero" was requested for an app with two units and has been resolved.
C3_Witness ==
    /\ Resolved
    /\ options.app_label = "blog"
    /\ options.migration_name = Zero
    /\ {<<"blog", U0001_i>>, <<"blog", U0002_a>>} \subseteq nodes
    /\ targets = << <<"blog", NoneName>> >>

\* The units of the requested app whose name starts with the requested name.
RequestedMatches ==
    { u \in nodes :
        /\ u[1] = options.app_label
        /\ Len(options.migration_name) <= Len(u[2])
        /\ \A i \in 1..Len(options.migration_name) :
              u[2][i] = options.migration_name[i] }

\* C4: for a migrated app and a name other than "zero", one matching unit
\* gives exactly the target (app_label, its full name), several give
\* AmbiguousUnit and none gives UnknownUnit.
C4_PrefixResolution ==
    (/\ Resolved
     /\ options.app_label \in migrated_apps
     /\ Truthy(options.migration_name)
     /\ options.migration_name # Zero) =>
        /\ Cardinality(RequestedMatches) = 1 =>
              /\ \E u \in RequestedMatches : targets = <<u>>
              /\ error \notin ResolverErrors
        /\ Cardinality(RequestedMatches) > 1 =>
              pc = "failed" /\ error = "AmbiguousUnit"
        /\ Cardinality(RequestedMatches) = 0 =>
              pc = "failed" /\ error = "UnknownUnit"

\* "0001" among 0001_i and 0002_a of blog has resolved to 0001_i.
C4_Witness ==
    /\ pc = "plan"
    /\ options.app_label = "blog"
    /\ options.migration_name = <<"0", "0", "0", "1">>
    /\ {u \in nodes : u[1] = "blog"} =
          {<<"blog", U0001_i>>, <<"blog", U0002_a>>}
    /\ targets = << <<"blog", U0001_i>> >>

\* The units no unit of their app depends on.
Leaves ==
    { u \in nodes : \A v \in nodes : ~(v[1] = u[1] /\ Parent(v) = u) }

\* C5: without an app label the targets are all the leaf units and
\* run_syncdb is set; with an app label and no name they are the leaf
\* units of that app and run_syncdb is not set; with both it is not set.
C5_ResolverShapes ==
    ResolvedOK =>
        /\ options.app_label = "" =>
              /\ run_syncdb
              /\ SeqToSet(targets) = Leaves
              /\ Len(targets) = Cardinality(Leaves)
        /\ (options.app_label # "" /\ ~Truthy(options.migration_name)) =>
              /\ ~run_syncdb
              /\ SeqToSet(targets) =
                    { u \in Leaves : u[1] = options.app_label }
              /\ Len(targets) = Cardinality(SeqToSet(targets))
        /\ (options.app_label # "" /\ Truthy(options.migration_name)) =>
              ~run_syncdb

\* Only blog was requested while shop has a leaf unit too.
C5_Witness ==
    /\ pc = "plan"
    /\ options.app_label = "blog"
    /\ options.migration_name = <<>>
    /\ targets = << <<"blog", U0002_a>> >>
    /\ <<"shop", U0001_i>> \in nodes

\* sync_apps has been called in this invocation.
SyncCalled ==
    /\ run_syncdb
    /\ unmigrated_apps # {}
    /\ pc \notin {"plan", "syncdb"}

\* The previous invocation called sync_apps and sync_apps returned.
SyncedBefore ==
    /\ Len(history) >= 1
    /\ history[Len(history)].synced

SchemaEvents ==
    {"create_table", "deferred_sql", "editor_exit_sql", "custom_sql",
     "custom_sql_failed"}

\* C6: when sync_apps runs again after it has returned, on the same
\* database and object model, its manifest has no objects, it creates no
\* model and issues no table creation, deferred SQL or custom SQL.
C6_SecondSyncIsEmpty ==
    (SyncedBefore /\ SyncCalled) =>
        /\ Chain(manifest) = <<>>
        /\ created_models = {}
        /\ \A i \in 1..Len(log) : log[i].kind \notin SchemaEvents

\* What does hold of a second sync_apps: it creates no model and issues no
\* table creation, deferred SQL or custom SQL, and its manifest holds only
\* proxy and unmanaged models.
SecondSyncCreatesNothing ==
    (SyncedBefore /\ SyncCalled) =>
        /\ \A m \in SeqToSet(Chain(manifest)) : Skipped(m)
        /\ created_models = {}
        /\ \A i \in 1..Len(log) : log[i].kind \notin SchemaEvents
        /\ DatabaseUntouched \/ HasEvent("apply") \/ HasEvent("unapply")

\* The phase of sync_apps a kind of event belongs to (0: none).
SyncPhase(kind) ==
    CASE kind = "create_table" -> 1
      [] kind \in {"deferred_sql", "editor_exit_sql"} -> 2
      [] kind \in {"custom_sql", "custom_sql_failed"} -> 3
      [] OTHER -> 0

\* C7: within one sync_apps every table creation comes before every
\* deferred statement, and every deferred statement before every custom
\* SQL statement.
C7_SyncPhasesInOrder ==
    \A i, j \in 1..Len(log) :
        (i < j /\ SyncPhase(log[i].kind) > 0 /\ SyncPhase(log[j].kind) > 0)
            => SyncPhase(log[i].kind) <= SyncPhase(log[j].kind)

\* Author and Book, which refer to each other, were both created, their
\* two deferred statements ran and custom SQL was installed.
C7_Witness ==
    /\ pc = "migrate"
    /\ {"Author", "Book"} \subseteq created_models
    /\ {"fk_author_book", "fk_book_author"} \subseteq constraints
    /\ HasEvent("custom_sql")

\* C8: a model whose custom SQL fails is reported on stderr and stays in
\* created_models, the custom SQL of every other created model is still
\* installed whatever their order, and the failure does not fail the
\* invocation: sync_apps returns, the plan is executed and post_migrate is
\* sent with all the created models.
C8_CustomSQLIsolation ==
    /\ (HasEvent("custom_sql_failed") \/ warnings # <<>>) =>
          \/ pc \in {"custom", "migrate", "executing", "post", "done"}
          \/ pc = "failed" /\ error = "PlanExecutionFailure"
    /\ Cardinality({ i \in 1..Len(log) : log[i].kind = "custom_sql_failed" })
          = Len(warnings)
    /\ SeqToSet(warnings) \subseteq created_models
    /\ SyncReturned =>
          \A m \in created_models :
              \/ m \in SeqToSet(warnings)
              \/ SeqToSet(Meta(m).custom_sql) \subseteq custom_installed
    /\ pc = "done" => post_signals = <<created_models>>

\* The custom SQL of Item, first in the manifest, failed; that of Author,
\* after it, is installed; the invocation has completed.
C8_Witness ==
    /\ pc = "done"
    /\ warnings = <<"Item">>
    /\ {"Item", "Author"} \subseteq created_models
    /\ {"a1", "a2"} \subseteq custom_installed
    /\ "i1" \notin custom_installed

\* C9: when table creation or deferred SQL fails on a backend that can
\* roll back DDL, the database is as the invocation found it, no model
\* left in the manifest has been created, no custom SQL was run, no unit
\* was applied or unapplied and no post_migrate was sent.
C9_FailedSyncRollsBack ==
    (pc = "failed" /\ error = "SchemaCreationFailure" /\ can_rollback_ddl) =>
        /\ DatabaseUntouched
        /\ created_models \cap SeqToSet(todo) = {}
        /\ post_signals = <<>>
        /\ \A i \in 1..Len(log) :
              log[i].kind \in {"pre_migrate", "create_table", "deferred_sql"}

\* Author's table was created and then rolled back with the failure.
C9_Witness ==
    /\ pc = "failed"
    /\ error = "SchemaCreationFailure"
    /\ can_rollback_ddl
    /\ "Author" \in created_models
    /\ "author" \notin tables

\* C10: pre_migrate is sent before the first table creation, deferred
\* statement, custom SQL statement and applied or unapplied unit of the
\* invocation, and before any of them is attempted.
C10_PreSignalFirst ==
    /\ \A j \in 1..Len(log) :
          log[j].kind \in SchemaEvents \cup {"apply", "unapply"} =>
              \E i \in 1..(j - 1) : log[i].kind = "pre_migrate"
    /\ pc \in {"create", "deferred", "custom", "executing"} =>
          HasEvent("pre_migrate")

\* Tables were created, deferred and custom SQL ran and a unit is applied,
\* after the pre_migrate signal that opens the log.
C10_Witness ==
    /\ pc = "executing"
    /\ log[1].kind = "pre_migrate"
    /\ HasEvent("create_table")
    /\ HasEvent("deferred_sql")
    /\ HasEvent("custom_sql")
    /\ HasEvent("apply")

\* The stage of handle a kind of event belongs to.
Stage(kind) ==
    CASE kind = "pre_migrate" -> 0
      [] kind \in SchemaEvents -> 1
      [] kind \in {"apply", "unapply"} -> 2
      [] kind = "post_migrate" -> 3

\* C11: the executor applies or unapplies its first unit only after the
\* last table creation, deferred statement and custom SQL statement of
\* sync_apps, and is running only once sync_apps has returned;
\* post_migrate is sent after the last unit of the plan.
C11_PlanAfterSyncBeforePost ==
    /\ \A i, j \in 1..Len(log) :
          i < j => Stage(log[i].kind) <= Stage(log[j].kind)
    /\ (pc = "executing" /\ run_syncdb /\ unmigrated_apps # {}) =>
          SyncReturned
    /\ HasEvent("post_migrate") => pc = "done" /\ todo = <<>>

\* sync_apps created tables, ran deferred and custom SQL, then a unit was
\* applied, then post_migrate was sent.
C11_Witness ==
    /\ pc = "done"
    /\ HasEvent("create_table")
    /\ HasEvent("deferred_sql")
    /\ HasEvent("custom_sql_failed")
    /\ HasEvent("apply")
    /\ log[Len(log)].kind = "post_migrate"

\* The models listed in the manifest.
InManifest == SeqToSet(Chain(manifest))

\* The models of the apps sync_apps was called for.
SyncedModels ==
    UNION { SeqToSet(AppConfigs[i].models) :
              i \in { k \in 1..Len(AppConfigs) :
                        /\ AppConfigs[k].models_module
                        /\ AppConfigs[k].label \in unmigrated_apps } }

\* The table of a model is absent from the tables introspected at line 242,
\* and so is the table of the model it was created for, if any.
TablesAbsent(model) ==
    /\ CreatedTable(model) \notin at_start.tables
    /\ Meta(model).auto_created # "" =>
          CreatedTable(Meta(model).auto_created) \notin at_start.tables

\* C12 as stated: a model of a synchronized app is in the manifest if and
\* only if its table, and the table of the model it was auto-created for,
\* are absent from the introspected tables.
C12_ManifestIffTablesAbsent ==
    SyncCalled =>
        \A m \in SyncedModels : m \in InManifest <=> TablesAbsent(m)

\* C12: a model of a synchronized app that is not auto-created is in the
\* manifest if and only if its converted table name is absent from the
\* introspected tables; an auto-created model is never in the manifest,
\* and the manifest holds no model of another app.
C12_ManifestOfDeclaredModels ==
    SyncCalled =>
        /\ InManifest \subseteq SyncedModels
        /\ \A m \in SyncedModels :
              m \in InManifest <=>
                  /\ Meta(m).auto_created = ""
                  /\ CreatedTable(m) \notin at_start.tables

\* A second sync_apps found the table of Item ("item", converted from
\* "Item") and the tables of Author and Book_authors absent: Author is
\* listed, Item and Book_authors are not.
C12_Witness ==
    /\ SyncCalled
    /\ "item" \in at_start.tables
    /\ "Item" \notin InManifest
    /\ TablesAbsent("Book_authors")
    /\ "Book_authors" \notin InManifest
    /\ "Author" \in InManifest

\* C13: a proxy model or an unmanaged model is never in the manifest, and
\* never in the models sent with pre_migrate.
C13_NoProxyOrUnmanagedInManifest ==
    /\ \A m \in InManifest : ~Skipped(m)
    /\ \A i \in 1..Len(pre_signals) : \A m \in pre_signals[i] : ~Skipped(m)

\* C14: a request naming an app without migrations (with or without a
\* migration name), a prefix matching no migration or a prefix matching
\* several fails with a CommandError; at that failure no plan has been
\* computed, no signal sent, sync_apps not called, no statement issued, and
\* the tables and the applied migrations are as the invocation found them.
C14_ResolutionFailureHasNoEffect ==
    /\ (Resolved /\ options.app_label # ""
           /\ options.app_label \notin migrated_apps) =>
          pc = "failed" /\ error = "UnknownComponent"
    /\ (Resolved /\ options.app_label \in migrated_apps
           /\ Truthy(options.migration_name)
           /\ options.migration_name # Zero) =>
          /\ RequestedMatches = {} =>
                pc = "failed" /\ error = "UnknownUnit"
          /\ Cardinality(RequestedMatches) > 1 =>
                pc = "failed" /\ error = "AmbiguousUnit"
    /\ error \in ResolverErrors =>
          /\ pc = "failed"
          /\ targets = <<>>
          /\ plan = <<>>
          /\ manifest = <<>>
          /\ created_models = {}
          /\ pre_signals = <<>>
          /\ post_signals = <<>>
          /\ log = <<>>
          /\ DatabaseUntouched

\* An app without migrations was named alone, on a database that an
\* earlier invocation left with tables, and the command has failed.
C14_Witness ==
    /\ pc = "failed"
    /\ error = "UnknownComponent"
    /\ options.migration_name = <<>>
    /\ tables # {}
    /\ DatabaseUntouched

\* The models whose table this invocation has created, as logged.
CreatedInLog ==
    { log[i].obj : i \in { k \in 1..Len(log) : log[k].kind = "create_table" } }

\* The app labels the manifest has an entry for.
ManifestLabels == { manifest[i][1] : i \in 1..Len(manifest) }

\* C15: sync_apps runs if and only if no app was named and some app has no
\* migrations, and its manifest has an entry for exactly the apps without
\* migrations; otherwise there is no manifest, no table, deferred or custom
\* SQL statement is issued, pre_migrate is sent with no models and
\* post_migrate with no created models. When sync_apps ran, post_migrate
\* carries exactly the models sync_apps created.
C15_SyncExactlyForUnmigratedApps ==
    /\ Len(pre_signals) = 1 =>
          IF options.app_label = "" /\ (AppLabels \ migrated_apps) # {}
          THEN /\ ManifestLabels = AppLabels \ migrated_apps
               /\ pre_signals[1] = InManifest
          ELSE /\ manifest = <<>>
               /\ pre_signals[1] = {}
               /\ \A i \in 1..Len(log) : log[i].kind \notin SchemaEvents
               /\ tables = at_start.tables
               /\ constraints = at_start.constraints
               /\ custom_installed = at_start.custom_installed
               /\ pc = "done" => post_signals = <<{}>>
    /\ Len(pre_signals) = 0 => manifest = <<>> /\ CreatedInLog = {}
    /\ pc = "done" => post_signals = <<CreatedInLog>>

\* One invocation named no app and created tables through sync_apps, and
\* sent them with post_migrate.
C15_Witness ==
    /\ pc = "done"
    /\ options.app_label = ""
    /\ ManifestLabels = {"shop", "legacy"}
    /\ CreatedInLog = {"Item", "Author", "Book"}
    /\ post_signals = <<{"Item", "Author", "Book"}>>

\* An invocation named the app blog while shop has no migrations: no
\* sync_apps, both signals empty.
C15_WitnessNamedApp ==
    /\ pc = "done"
    /\ options.app_label = "blog"
    /\ "shop" \notin migrated_apps
    /\ manifest = <<>>
    /\ pre_signals = <<{}>>
    /\ post_signals = <<{}>>

\* executor.migrate raised.
PlanFailed == pc = "failed" /\ error = "PlanExecutionFailure"

\* The number of plan units executor.migrate went through, as logged.
UnitsExecuted ==
    Cardinality({ i \in 1..Len(log) : log[i].kind \in {"apply", "unapply"} })

\* C16: when executor.migrate raises partway through the plan, the command
\* fails, the units from the failing one on are not executed,
\* post_migrate is not sent, the units executed before stay applied (or
\* unapplied) and what sync_apps created and installed stays.
C16_PlanFailureUndoesNothing ==
    PlanFailed =>
        /\ post_signals = <<>>
        /\ ~HasEvent("post_migrate")
        /\ UnitsExecuted < Len(plan)
        /\ todo = SubSeq(plan, UnitsExecuted + 1, Len(plan))
        /\ \A i \in 1..UnitsExecuted :
              plan[i].unit \in applied <=> ~plan[i].backwards
        /\ \A u \in AllUnits :
              (\A i \in 1..UnitsExecuted : plan[i].unit # u) =>
                  (u \in applied <=> u \in at_start.applied)
        /\ tables = at_start.tables \cup
                        { CreatedTable(m) : m \in CreatedInLog }
        /\ constraints = at_start.constraints \cup SeqToSet(deferred_sql)
        /\ at_start.custom_installed \subseteq custom_installed

\* sync_apps created tables, one unit was applied and the next one failed.
C16_Witness ==
    /\ PlanFailed
    /\ UnitsExecuted >= 1
    /\ applied # at_start.applied
    /\ CreatedInLog # {}
    /\ { CreatedTable(m) : m \in CreatedInLog } \subseteq tables

\* The model a custom SQL statement belongs to.
OwnerOf(statement) ==
    CHOOSE m \in AllModels : statement \in SeqToSet(Meta(m).custom_sql)

\* C17: custom SQL is installed per model in its own transaction: when a
\* statement of a created model fails, none of the statements of that
\* model run before it stays installed, the table of the model stays, and
\* the statements of the models whose custom SQL did not fail stay
\* installed.
C17_CustomSQLPerModelTransaction ==
    /\ \A m \in SeqToSet(warnings) :
          /\ SeqToSet(Meta(m).custom_sql) \cap custom_installed = {}
          /\ CreatedTable(m) \in tables
          /\ m \in CreatedInLog
    /\ \A i \in 1..Len(log) :
          log[i].kind = "custom_sql" =>
              /\ OwnerOf(log[i].obj) \in CreatedInLog
              /\ log[i].obj \in custom_installed <=>
                     OwnerOf(log[i].obj) \notin SeqToSet(warnings)

\* The second statement of Author failed after its first had run: neither
\* is installed, table author is there, and the statement of Item, run
\* before, is installed.
C17_Witness ==
    /\ "Author" \in SeqToSet(warnings)
    /\ \E i, j \in 1..Len(log) :
          /\ i < j
          /\ log[i] = Event("custom_sql", "a1")
          /\ log[j] = Event("custom_sql_failed", "a2")
    /\ "a1" \notin custom_installed
    /\ "author" \in tables
    /\ "i1" \in custom_installed
    /\ SyncReturned

\* The deferred statements executed so far in this invocation, in order.
DeferredExecuted ==
    LET evs == SelectSeq(log, LAMBDA e : e.kind = "deferred_sql")
    IN  [i \in 1..Len(evs) |-> evs[i].obj]

\* The deferred statements of the models created so far, in manifest
\* order.
DeferredProduced ==
    LET made == SelectSeq(Chain(manifest), LAMBDA m : m \in CreatedInLog)
    IN  Concat([i \in 1..Len(made) |-> Meta(made[i]).deferred])

\* C18: every deferred statement produced while creating a table of the
\* manifest is executed exactly once, in the order the models that
\* produced them have in the manifest, and only in the loop after the
\* creation loop: none is executed when a schema editor is released.
C18_DeferredOnceInOrder ==
    /\ ~HasEvent("editor_exit_sql")
    /\ Len(DeferredExecuted) <= Len(DeferredProduced)
    /\ DeferredExecuted = SubSeq(DeferredProduced, 1, Len(DeferredExecuted))
    /\ DeferredExecuted # <<>> =>
          \A m \in InManifest : ~Skipped(m) => m \in CreatedInLog
    /\ pc \in {"create", "deferred"} => deferred_sql = DeferredProduced
    /\ SyncReturned =>
          /\ DeferredExecuted = DeferredProduced
          /\ SeqToSet(DeferredProduced) \subseteq constraints

\* Author and Book were created in this order and sync_apps has returned:
\* their two deferred statements ran once each, Author's first.
C18_Witness ==
    /\ SyncReturned
    /\ {"Author", "Book"} \subseteq CreatedInLog
    /\ DeferredExecuted = <<"fk_author_book", "fk_book_author">>

\* The models whose custom SQL was run, wholly or up to a failing
\* statement.
CustomSQLAttempted ==
    { OwnerOf(log[i].obj) :
        i \in { k \in 1..Len(log) :
                  log[k].kind \in {"custom_sql", "custom_sql_failed"} } }

\* The managed, non-proxy models among a set of models.
Creatable(models) ==
    { m \in models : Meta(m).managed /\ ~Meta(m).proxy }

\* C19: created_models is always within the models sent with pre_migrate
\* and holds managed, non-proxy models only; when sync_apps returns it is
\* exactly the managed, non-proxy models of the manifest and custom SQL
\* has been attempted for exactly those (that have any); the models sent
\* with post_migrate are among those sent with pre_migrate.
C19_CreatedSetWithinManifest ==
    /\ created_models = Creatable(created_models)
    /\ created_models = CreatedInLog
    /\ created_models \subseteq
          (IF pre_signals = <<>> THEN {} ELSE pre_signals[1])
    /\ CustomSQLAttempted \subseteq created_models
    /\ SyncReturned =>
          /\ created_models = Creatable(InManifest)
          /\ CustomSQLAttempted =
                { m \in created_models : Meta(m).custom_sql # <<>> }
    /\ pc = "done" =>
          /\ Len(pre_signals) = 1
          /\ Len(post_signals) = 1
          /\ post_signals[1] = created_models
          /\ post_signals[1] \subseteq pre_signals[1]

\* The manifest held the proxy BookProxy and the unmanaged Report next to
\* Item, Author and Book: only the last three were created and sent with
\* post_migrate, and the custom SQL of Item and Author was attempted.
C19_Witness ==
    /\ pc = "done"
    /\ pre_signals = <<{"Item", "Author", "Book", "BookProxy", "Report"}>>
    /\ post_signals = <<{"Item", "Author", "Book"}>>
    /\ CustomSQLAttempted = {"Item", "Author"}

\* The creation loop of lines 273-287 raised on a backend that cannot roll
\* back DDL: the models not yet gone through are left in todo.
CreationFailedNoRollback ==
    /\ pc = "failed"
    /\ error = "SchemaCreationFailure"
    /\ ~can_rollback_ddl
    /\ todo # <<>>
    /\ Head(todo) \in AllModels

\* The previous invocation failed in sync_apps on a backend that cannot
\* roll back DDL.
FailedSyncBefore ==
    /\ Len(history) >= 1
    /\ history[Len(history)].outcome = "failed"
    /\ history[Len(history)].error = "SchemaCreationFailure"
    /\ ~can_rollback_ddl

\* C20: on a backend that cannot roll back DDL, when table creation fails
\* partway the tables created before the failure stay and no deferred
\* statement has run; the next sync_apps leaves the models of those tables
\* out of its manifest, does not create them again, and neither runs their
\* deferred statements nor installs their custom SQL.
C20_PartialTablesStayUnfinished ==
    /\ CreationFailedNoRollback =>
          /\ tables = at_start.tables \cup
                          { CreatedTable(m) : m \in created_models }
          /\ DeferredExecuted = <<>>
          /\ constraints = at_start.constraints
          /\ custom_installed = at_start.custom_installed
    /\ FailedSyncBefore =>
          \A m \in history[Len(history)].created :
              /\ CreatedTable(m) \in at_start.tables
              /\ m \notin InManifest
              /\ m \notin created_models
              /\ m \notin CreatedInLog
              /\ SeqToSet(Meta(m).deferred) \cap
                     (SeqToSet(deferred_sql) \cup SeqToSet(DeferredExecuted))
                   = {}
              /\ SeqToSet(Meta(m).deferred) \cap constraints
                     \subseteq at_start.constraints
              /\ m \notin CustomSQLAttempted
              /\ SeqToSet(Meta(m).custom_sql) \cap custom_installed = {}

\* Table creation failed after Author was created; the next sync_apps
\* created Book and returned: table author is there, without its deferred
\* statement and without its custom SQL.
C20_Witness ==
    /\ FailedSyncBefore
    /\ "Author" \in history[Len(history)].created
    /\ SyncReturned
    /\ "Book" \in CreatedInLog
    /\ "author" \in tables
    /\ "fk_author_book" \notin constraints
    /\ "fk_book_author" \in constraints
    /\ "a1" \notin custom_installed

\* Table creation has failed after Item was created on a backend that
\* cannot roll back DDL: table item is there.
C20_WitnessFailure ==
    /\ CreationFailedNoRollback
    /\ "Item" \in created_models
    /\ "item" \in tables
    /\ "item" \notin at_start.tables

====
